---- MODULE Spec2Model ----
(***************************************************************************)
(* A model of msaexp/resample_numba.py: resample_template_numba,           *)
(* sample_gaussian_line_numba, pixel_integrated_gaussian_numba and         *)
(* compute_igm.                                                            *)
(*                                                                         *)
(* Arrays are functions over 0..len-1, as the source indexes them.         *)
(* Floating point numbers are modelled by exact rationals <<num, den>>     *)
(* with den > 0 in lowest terms; rounding is not modelled.  A square root  *)
(* is carried by its radicand: the kernel width dw >= 0 is held as dw^2.   *)
(* Values of exp, erf and fractional powers are kept as symbolic terms.    *)
(***************************************************************************)
EXTENDS Integers, Sequences, FiniteSets, TLC

\* Bounds of the model
MaxN == 2
MaxM == 3
MaxWave == 4

---------------------------------------------------------------------------
\* Exact rational arithmetic

Abs(a) == IF a < 0 THEN -a ELSE a

RECURSIVE GCD(_, _)
GCD(a, b) == IF b = 0 THEN a ELSE GCD(b, a % b)

Rat(n, d) ==
    LET g == GCD(Abs(n), Abs(d))
        s == IF d < 0 THEN -1 ELSE 1
    IN  <<s * (n \div g), s * (d \div g)>>

RatInt(n) == <<n, 1>>

RatAdd(a, b) ==
    LET g == GCD(a[2], b[2])
    IN  Rat(a[1] * (b[2] \div g) + b[1] * (a[2] \div g), (a[2] \div g) * b[2])

RatNeg(a) == <<-a[1], a[2]>>
RatSub(a, b) == RatAdd(a, RatNeg(b))

RatMul(a, b) ==
    LET p == Rat(a[1], b[2])
        q == Rat(b[1], a[2])
    IN  <<p[1] * q[1], p[2] * q[2]>>

RatDiv(a, b) == RatMul(a, Rat(b[2], b[1]))
RatSq(a) == RatMul(a, a)

\* comparisons: the integer parts first, then the fractional parts
RatLt(a, b) ==
    LET fa == a[1] \div a[2]
        fb == b[1] \div b[2]
    IN  \/ fa < fb
        \/ fa = fb /\ (a[1] % a[2]) * b[2] < (b[1] % b[2]) * a[2]

RatLe(a, b) == ~RatLt(b, a)

\* Arrays
Len0(f) == Cardinality(DOMAIN f)
Ascending(f) == \A a, b \in DOMAIN f : a < b => f[a] <= f[b]
Arrays(n, S) == [0..(n - 1) -> S]
SortedArrays(n, S) == {f \in Arrays(n, S) : Ascending(f)}

---------------------------------------------------------------------------
\* resample_template_numba

VARIABLES spec_wobs, spec_R_fwhm, templ_wobs, templ_flux, velocity_sigma,
          nsig, fill_value, dw, ilo, ihi, i, resamp, pc,
          iloIn, ihiIn, hist, reads, nIlo, nIhi

\* sample_gaussian_line_numba and pixel_integrated_gaussian_numba
VARIABLES gcall, line_um, line_flux, Rw, ldw,
          x, mu, sigma2, dx, normalization, xdx, samp, gi, gpc

\* compute_igm
VARIABLES z, wobs, scale_tau, tau, igmz, ii, ipc

rvars == <<spec_wobs, spec_R_fwhm, templ_wobs, templ_flux, velocity_sigma,
           nsig, fill_value, dw, ilo, ihi, i, resamp, pc,
           iloIn, ihiIn, hist, reads, nIlo, nIhi>>

gvars == <<gcall, line_um, line_flux, Rw, ldw,
           x, mu, sigma2, dx, normalization, xdx, samp, gi, gpc>>

ivars == <<z, wobs, scale_tau, tau, igmz, ii, ipc>>

vars == <<rvars, gvars, ivars>>

rinputs == <<spec_wobs, spec_R_fwhm, templ_wobs, templ_flux, velocity_sigma,
             nsig, fill_value, dw, gvars, ivars>>

Empty == <<>>

\* the state of a function that is not called
NoResample ==
    /\ templ_wobs = Empty /\ templ_flux = Empty /\ nsig = 0 /\ fill_value = 0
    /\ ilo = 0 /\ ihi = 0 /\ i = 0 /\ resamp = Empty /\ pc = "none"
    /\ iloIn = 0 /\ ihiIn = 0 /\ hist = Empty /\ reads = {}
    /\ nIlo = 0 /\ nIhi = 0

NoGauss ==
    /\ gcall = "none" /\ line_um = Empty /\ line_flux = 0 /\ Rw = Empty
    /\ ldw = Empty /\ x = Empty /\ mu = Empty /\ sigma2 = Empty /\ dx = Empty
    /\ normalization = 0 /\ xdx = Empty /\ samp = Empty /\ gi = 0
    /\ gpc = "none"

NoIgm ==
    /\ z = Empty /\ wobs = Empty /\ scale_tau = 0 /\ tau = Empty
    /\ igmz = Empty /\ ii = 0 /\ ipc = "none"

Waves == 1..MaxWave
Resolutions == {1, 2}
Velocities == {0, 150000}
NSigmas == {1, 2}
FillValues == {0, 1}

N == Len0(spec_wobs)
Nt == Len0(templ_wobs)

\* dw^2 for one pixel: (sqrt((velocity_sigma / 3.0e5) ** 2
\*                     + (1.0 / 2.35 / spec_R_fwhm) ** 2) * spec_wobs) ^ 2
resample_dw2(vs, R, w) ==
    RatMul(RatAdd(RatSq(RatDiv(RatInt(vs), RatInt(300000))),
                  RatSq(RatDiv(RatDiv(RatInt(1), Rat(235, 100)), RatInt(R)))),
           RatSq(RatInt(w)))

\* t < w - ns * dw, for ns >= 0 and dw >= 0 given by its square d2
BelowLower(t, w, ns, d2) ==
    /\ w - t > 0
    /\ RatLt(RatMul(RatInt(ns * ns), d2), RatInt((w - t) * (w - t)))

\* t < w + ns * dw, for ns >= 0 and dw >= 0 given by its square d2
BelowUpper(t, w, ns, d2) ==
    \/ t - w < 0
    \/ RatLt(RatInt((t - w) * (t - w)), RatMul(RatInt(ns * ns), d2))

\* the condition of the while loop on ilo (line 81)
IloCond == BelowLower(templ_wobs[ilo], spec_wobs[i], nsig, dw[i]) /\ ilo < Nt - 1

\* the comparison of the while loop on ihi (line 89), for ihi within the template
IhiCond == BelowUpper(templ_wobs[ihi], spec_wobs[i], nsig, dw[i]) /\ ihi < Nt

NoEntry == [kind |-> "none", iloIn |-> -1, ihiIn |-> -1, ilo |-> -1, ihi |-> -1]
Entry(k) == [kind |-> k, iloIn |-> iloIn, ihiIn |-> ihiIn, ilo |-> ilo, ihi |-> ihi]

\* resamp = np.zeros_like(spec_wobs) * fill_value
InitialValue(fv) == 0 * fv

LoopStart(sw, sr, tw, tf, vs, ns, fv) ==
    /\ spec_wobs = sw
    /\ spec_R_fwhm = sr
    /\ templ_wobs = tw
    /\ templ_flux = tf
    /\ velocity_sigma = vs
    /\ nsig = ns
    /\ fill_value = fv
    /\ dw = [p \in DOMAIN sw |-> resample_dw2(vs, sr[p], sw[p])]
    /\ ilo = 0
    /\ ihi = 1
    /\ i = 0
    /\ resamp = [p \in DOMAIN sw |-> <<"init", InitialValue(fv)>>]
    /\ pc = "ilo"
    /\ iloIn = 0
    /\ ihiIn = 1
    /\ hist = [p \in DOMAIN sw |-> NoEntry]
    /\ reads = {}
    /\ nIlo = 0
    /\ nIhi = 0
    /\ NoGauss
    /\ NoIgm

Fluxes(m) == {[j \in 0..(m - 1) |-> 10 + j]}

InitResample ==
    \E n \in 1..MaxN, m \in 1..MaxM :
      \E sw \in SortedArrays(n, Waves), sr \in Arrays(n, Resolutions),
         tw \in SortedArrays(m, Waves), tf \in Fluxes(m),
         vs \in Velocities, ns \in NSigmas, fv \in FillValues :
        LoopStart(sw, sr, tw, tf, vs, ns, fv)

\* for i in range(N): the next iteration, or the return
NextPixel ==
    /\ i' = i + 1
    /\ pc' = IF i + 1 < N THEN "ilo" ELSE "done"
    /\ iloIn' = ilo'
    /\ ihiIn' = ihi'

IloAdvance ==
    /\ pc = "ilo"
    /\ IloCond
    /\ ilo' = ilo + 1
    /\ nIlo' = nIlo + 1
    /\ reads' = reads \cup {ilo}
    /\ UNCHANGED <<rinputs, ihi, i, resamp, pc, iloIn, ihiIn, hist, nIhi>>

\* the skip test of line 84 taken one template sample late
SkipLate ==
    /\ pc = "ilo"
    /\ ~IloCond
    /\ ilo <= 1
    /\ reads' = reads \cup {ilo}
    /\ hist' = [hist EXCEPT ![i] = Entry("skip")]
    /\ UNCHANGED <<rinputs, ilo, ihi, resamp, nIlo, nIhi>>
    /\ NextPixel

Skip ==
    /\ pc = "ilo"
    /\ ~IloCond
    /\ ilo = 0
    /\ reads' = reads \cup {ilo}
    /\ hist' = [hist EXCEPT ![i] = Entry("skip")]
    /\ UNCHANGED <<rinputs, ilo, ihi, resamp, nIlo, nIhi>>
    /\ NextPixel

StepBack ==
    /\ pc = "ilo"
    /\ ~IloCond
    /\ ilo # 0
    /\ reads' = reads \cup {ilo}
    /\ ilo' = ilo - 1
    /\ pc' = "ihi"
    /\ UNCHANGED <<rinputs, ihi, i, resamp, iloIn, ihiIn, hist, nIlo, nIhi>>

IhiAdvance ==
    /\ pc = "ihi"
    /\ ihi < Nt
    /\ IhiCond
    /\ ihi' = ihi + 1
    /\ nIhi' = nIhi + 1
    /\ reads' = reads \cup {ihi}
    /\ UNCHANGED <<rinputs, ilo, i, resamp, pc, iloIn, ihiIn, hist, nIlo>>

\* Window with a fresh search for ihi at every pixel
WindowFresh(r) ==
    IF ilo >= ihi
    THEN /\ resamp' = [resamp EXCEPT ![i] = <<"flux", templ_flux[ihi]>>]
         /\ reads' = reads \cup {r, ihi}
         /\ hist' = [hist EXCEPT ![i] = Entry("flux")]
         /\ UNCHANGED <<rinputs, ilo, ihi, nIlo, nIhi>>
         /\ NextPixel
    ELSE IF ilo = Nt - 1
    THEN /\ pc' = "done"
         /\ reads' = reads \cup {r}
         /\ hist' = [hist EXCEPT ![i] = Entry("break")]
         /\ UNCHANGED <<rinputs, ilo, ihi, i, resamp, iloIn, ihiIn, nIlo, nIhi>>
    ELSE /\ resamp' = [resamp EXCEPT ![i] = <<"trapz", ilo, ihi>>]
         /\ reads' = reads \cup {r} \cup (ilo..(ihi - 1))
         /\ hist' = [hist EXCEPT ![i] = Entry("trapz")]
         /\ ihi' = ilo + 1
         /\ UNCHANGED <<rinputs, ilo, nIlo, nIhi>>
         /\ NextPixel

\* lines 92-104, after the search for ihi has read index r of templ_wobs
Window(r) ==
    IF ilo >= ihi
    THEN /\ resamp' = [resamp EXCEPT ![i] = <<"flux", templ_flux[ihi]>>]
         /\ reads' = reads \cup {r, ihi}
         /\ hist' = [hist EXCEPT ![i] = Entry("flux")]
         /\ UNCHANGED <<rinputs, ilo, ihi, nIlo, nIhi>>
         /\ NextPixel
    ELSE IF ilo = Nt - 1
    THEN /\ pc' = "done"
         /\ reads' = reads \cup {r}
         /\ hist' = [hist EXCEPT ![i] = Entry("break")]
         /\ UNCHANGED <<rinputs, ilo, ihi, i, resamp, iloIn, ihiIn, nIlo, nIhi>>
    ELSE /\ resamp' = [resamp EXCEPT ![i] = <<"trapz", ilo, ihi>>]
         /\ reads' = reads \cup {r} \cup (ilo..(ihi - 1))
         /\ hist' = [hist EXCEPT ![i] = Entry("trapz")]
         /\ UNCHANGED <<rinputs, ilo, ihi, nIlo, nIhi>>
         /\ NextPixel

IhiFound ==
    /\ pc = "ihi"
    /\ ihi < Nt
    /\ ~IhiCond
    /\ Window(ihi)

\* templ_wobs[ihi] is evaluated with ihi = Nt before (ihi < Nt) is: the read is
\* outside the array.  Compiled without bounds checking it yields some value and
\* the conjunction is false; with bounds checking it raises IndexError.
IhiPastEnd ==
    /\ pc = "ihi"
    /\ ihi >= Nt
    /\ Window(ihi)

IhiPastEndRaise ==
    /\ pc = "ihi"
    /\ ihi >= Nt
    /\ pc' = "error"
    /\ reads' = reads \cup {ihi}
    /\ hist' = [hist EXCEPT ![i] = Entry("error")]
    /\ UNCHANGED <<rinputs, ilo, ihi, i, resamp, iloIn, ihiIn, nIlo, nIhi>>

NextResample ==
    \/ IloAdvance
    \/ Skip
    \/ StepBack
    \/ IhiAdvance
    \/ IhiFound
    \/ IhiPastEnd
    \/ IhiPastEndRaise

Init == InitResample
Next == NextResample
Spec == Init /\ [][Next]_vars

\* resample_template on grids in any order; the loop keeps running
AnyWaves == {1, 2, 4}

InitAny ==
    \E n \in 1..MaxN, m \in 1..MaxM :
      \E sw \in Arrays(n, AnyWaves), r \in Resolutions,
         tw \in Arrays(m, AnyWaves), tf \in Fluxes(m) :
        LoopStart(sw, [p \in 0..(n - 1) |-> r], tw, tf, 0, 1, 0)

SpecAny == InitAny /\ [][Next]_vars /\ WF_vars(Next)

---------------------------------------------------------------------------
\* Vocabulary of the claims about resample_template

\* template sample j lies strictly below the lower window edge of pixel p
LowerBelow(j, p) == BelowLower(templ_wobs[j], spec_wobs[p], nsig, dw[p])

\* template sample j lies strictly below the upper window edge of pixel p
UpperBelow(j, p) == BelowUpper(templ_wobs[j], spec_wobs[p], nsig, dw[p])

\* template sample j lies strictly above the upper window edge of pixel p
UpperAbove(j, p) ==
    LET d == templ_wobs[j] - spec_wobs[p]
    IN  d > 0 /\ RatLt(RatMul(RatInt(nsig * nsig), dw[p]), RatInt(d * d))

SortedGrids == Ascending(spec_wobs) /\ Ascending(templ_wobs)
PositiveResolution == \A p \in DOMAIN spec_R_fwhm : spec_R_fwhm[p] > 0
Pixels == DOMAIN spec_wobs
Samples == DOMAIN templ_wobs
Windowed(p) == hist[p].kind \in {"flux", "trapz", "break"}
Unassigned(p) == resamp[p][1] = "init"
Decided(p) == hist[p].kind \in {"skip", "flux", "trapz", "break"}

\* C1 (as claimed): in the returned array every pixel that was assigned no
\* computed value holds exactly fill_value, whatever fill_value is.
C1_UnassignedHoldFillValue ==
    pc = "done" => \A p \in Pixels : Unassigned(p) => resamp[p][2] = fill_value

\* all template wavelengths lie below the lower window edge of pixel p, so the
\* search for ilo stops only at its bound Nt - 1
Exhausted(p) == \A j \in Samples : LowerBelow(j, p)

\* C2 (as claimed): on sorted grids, when the template is exhausted for a
\* pixel, that pixel and every later pixel are left without a computed value.
C2_ExhaustionStopsTheLoop ==
    (pc = "done" /\ SortedGrids) =>
        \A p, q \in Pixels : (Exhausted(p) /\ p <= q) => Unassigned(q)

\* the window of pixel p holds no template sample, and the template has
\* samples on both sides of it
EmptyWindow(p) ==
    /\ \A j \in Samples : LowerBelow(j, p) \/ UpperAbove(j, p)
    /\ \E j \in Samples : LowerBelow(j, p)
    /\ \E j \in Samples : UpperAbove(j, p)

\* C3 (as claimed): on sorted grids, a pixel with an empty window ends its two
\* searches with ilo >= ihi and receives the single value templ_flux[ihi].
C3_EmptyWindowNearestNeighbour ==
    SortedGrids =>
        \A p \in Pixels : (EmptyWindow(p) /\ Decided(p)) =>
            /\ hist[p].ilo >= hist[p].ihi
            /\ resamp[p] = <<"flux", templ_flux[hist[p].ihi]>>

NoCoverageBelow(p) == \A j \in Samples : ~LowerBelow(j, p)

\* every template sample strictly below the lower window edge of an earlier
\* pixel is strictly below that of pixel p (so it is when the lower window
\* edges do not decrease up to p)
LowerEdgesAdvanceTo(p) ==
    \A q \in Pixels : q < p => \A j \in Samples : LowerBelow(j, q) => LowerBelow(j, p)

\* C4 (as claimed): on sorted grids with positive resolution a pixel is
\* skipped exactly when no template sample lies strictly below its lower edge.
C4_SkippedIffNoCoverage ==
    (SortedGrids /\ PositiveResolution) =>
        \A p \in Pixels : Decided(p) => (hist[p].kind = "skip" <=> NoCoverageBelow(p))

\* C4 (amended): a skipped pixel leaves ilo and ihi as it found them; with a
\* template of at least two samples a skipped pixel has no template sample
\* strictly below its lower edge, and a pixel without such a sample is skipped
\* when the lower window edges of the earlier pixels are not above its own.
C4_SkipAmended ==
    (SortedGrids /\ PositiveResolution) =>
        \A p \in Pixels : Decided(p) =>
            /\ hist[p].kind = "skip" =>
                   /\ hist[p].ilo = 0 /\ hist[p].iloIn = 0
                   /\ hist[p].ihi = hist[p].ihiIn
            /\ (Nt >= 2 /\ hist[p].kind = "skip") => NoCoverageBelow(p)
            /\ (Nt >= 2 /\ LowerEdgesAdvanceTo(p) /\ NoCoverageBelow(p)) =>
                   hist[p].kind = "skip"
            /\ (Nt >= 2 /\ LowerEdgesAdvanceTo(p)) =>
                   (hist[p].kind = "skip" <=> NoCoverageBelow(p))

C4_Witness ==
    /\ pc = "done" /\ Nt >= 2
    /\ \E p, q \in Pixels :
          /\ hist[p].kind = "skip" /\ NoCoverageBelow(p)
          /\ hist[q].kind = "trapz" /\ LowerEdgesAdvanceTo(q) /\ ~NoCoverageBelow(q)

\* C8 (as claimed): on sorted grids with positive resolution ihi never
\* decreases and the ilo of a pixel's window is never below the ilo of the
\* window of an earlier pixel.
C8_WindowIloNeverSmaller ==
    (SortedGrids /\ PositiveResolution) =>
        \A p, q \in Pixels :
            (p < q /\ Windowed(p) /\ Windowed(q)) => hist[q].ilo >= hist[p].ilo

\* pixel p is the last pixel before q that formed a window
PreviousWindow(p, q) ==
    /\ p < q /\ Windowed(p) /\ Windowed(q)
    /\ \A r \in Pixels : (p < r /\ r < q) => ~Windowed(r)

WindowIloBounds ==
    (SortedGrids /\ PositiveResolution) =>
        \A p, q \in Pixels :
            /\ PreviousWindow(p, q) => hist[q].ilo >= hist[p].ilo - 1
            /\ (p < q /\ Windowed(p) /\ Windowed(q) /\ LowerEdgesAdvanceTo(q)) =>
                   hist[q].ilo >= hist[p].ilo

\* C8 (amended): ihi never decreases; the ilo of a pixel's window is at most
\* one below the ilo of the previous window, and is never below the ilo of an
\* earlier window when the lower window edges of the earlier pixels are not
\* above the pixel's own.
C8_IndicesAmended == [][ihi' >= ihi]_vars /\ []WindowIloBounds

C8_Witness ==
    /\ pc = "done" /\ SortedGrids
    /\ \E p, q \in Pixels :
          /\ PreviousWindow(p, q) /\ LowerEdgesAdvanceTo(q)
          /\ hist[q].ilo > hist[p].ilo
          /\ hist[q].ihi > hist[p].ihi

\* C9: resample_template terminates, with at most M increments of ihi and at
\* most N + M increments of ilo over the whole call.
C9_LinearSearch ==
    /\ [](nIhi <= Nt /\ nIlo <= N + Nt)
    /\ <>(pc \in {"done", "error"})

C9_Witness ==
    /\ pc = "done" /\ ~Ascending(templ_wobs)
    /\ nIlo >= 2 /\ nIhi >= 2

\* C10 (as claimed): every read of templ_wobs and templ_flux uses an index
\* within 0..M-1.
C10_ReadsWithinTemplate ==
    (SortedGrids /\ Nt >= 2) => reads \subseteq 0..(Nt - 1)

---------------------------------------------------------------------------
\* sample_gaussian_line_numba and pixel_integrated_gaussian_numba

MaxPix == 3

None == <<"None">>
Scalar(v) == <<"scalar", v>>
Array(f) == <<"array", f>>

\* np.interp(xq, xp, fp): clamped at both ends, linear in between
interp(xq, xp, fp) ==
    LET n == Len0(xp)
    IN  IF RatLt(xq, RatInt(xp[0])) THEN RatInt(fp[0])
        ELSE IF RatLe(RatInt(xp[n - 1]), xq) THEN RatInt(fp[n - 1])
        ELSE LET j == CHOOSE k \in 0..(n - 2) :
                          /\ RatLe(RatInt(xp[k]), xq)
                          /\ RatLt(xq, RatInt(xp[k + 1]))
                 slope == Rat(fp[j + 1] - fp[j], xp[j + 1] - xp[j])
             IN  RatAdd(RatMul(slope, RatSub(xq, RatInt(xp[j]))), RatInt(fp[j]))

\* the velocity term divided by 3.0e4
line_dw2_c4(vs, R, lam) ==
    RatMul(RatAdd(RatSq(RatDiv(RatInt(vs), RatInt(30000))),
                  RatSq(RatDiv(RatDiv(RatInt(1), Rat(235, 100)), R))),
           RatSq(lam))

\* dw^2 of the line: (sqrt((velocity_sigma / 3.0e5) ** 2
\*                    + (1.0 / 2.35 / Rw) ** 2) * line_um) ^ 2
line_dw2(vs, R, lam) ==
    RatMul(RatAdd(RatSq(RatDiv(RatInt(vs), RatInt(300000))),
                  RatSq(RatDiv(RatDiv(RatInt(1), Rat(235, 100)), R))),
           RatSq(lam))

\* one-sided differences at every sample
GradientForward(xx) ==
    LET n == Len0(xx)
    IN  [k \in DOMAIN xx |->
            IF k < n - 1 THEN RatInt(xx[k + 1] - xx[k])
            ELSE RatInt(xx[n - 1] - xx[n - 2])]

\* xdx = np.ones_like(x); xdx[1:-1] = (x[2:] - x[:-2]) / 2.0;
\* xdx[0] = x[1] - x[0]; xdx[-1] = x[-1] - x[-2], for len(x) >= 2
Gradient(xx) ==
    LET n == Len0(xx)
        ones == [k \in DOMAIN xx |-> RatInt(1)]
        mid == [k \in DOMAIN xx |->
                   IF 1 <= k /\ k <= n - 2 THEN Rat(xx[k + 1] - xx[k - 1], 2)
                   ELSE ones[k]]
        first == [mid EXCEPT ![0] = RatInt(xx[1] - xx[0])]
    IN  [first EXCEPT ![n - 1] = RatInt(xx[n - 1] - xx[n - 2])]

\* xdx = dx * np.ones_like(x)
Broadcast(d, xx) ==
    [k \in DOMAIN xx |-> IF d[1] = "scalar" THEN d[2] ELSE d[2][k]]

\* (erf((x0 + xdx/2) / s2dw) - erf((x0 - xdx/2) / s2dw)) / 2 / xdx * normalization,
\* kept as its arguments; s2dw = sqrt(2) * sigma is held as its square
PixelIntegral(k) ==
    [x0 |-> RatSub(RatInt(x[k]), mu), dx |-> xdx[k],
     s2dw2 |-> RatMul(RatInt(2), sigma2), norm |-> normalization]

LineCenters == {Rat(k, 2) : k \in 1..(2 * MaxWave + 1)}
LineFluxes == {1, 2}
Centers == {RatInt(2), Rat(5, 2)}
Sigmas2 == {Rat(1, 4), RatInt(1)}
Widths(n) == {None, Scalar(RatInt(1)), Scalar(Rat(1, 2)),
              Array([k \in 0..(n - 1) |-> RatInt(k + 1)])}

\* sample_gaussian_line_numba(spec_wobs, spec_R_fwhm, line_um, line_flux,
\* velocity_sigma); dw holds the widths that resample_template_numba derives
\* from the same spec_wobs, spec_R_fwhm and velocity_sigma (lines 61-66)
InitLine ==
    \E n \in 2..MaxPix :
      \E sw \in SortedArrays(n, Waves), sr \in Arrays(n, Resolutions),
         lu \in LineCenters, lf \in LineFluxes, vs \in Velocities :
        /\ spec_wobs = sw /\ spec_R_fwhm = sr /\ velocity_sigma = vs
        /\ dw = [p \in DOMAIN sw |-> resample_dw2(vs, sr[p], sw[p])]
        /\ NoResample
        /\ gcall = "line" /\ line_um = lu /\ line_flux = lf
        /\ Rw = Empty /\ ldw = Empty
        /\ x = Empty /\ mu = Empty /\ sigma2 = Empty /\ dx = Empty
        /\ normalization = 0 /\ xdx = Empty /\ samp = Empty /\ gi = 0
        /\ gpc = "interp"
        /\ NoIgm

\* pixel_integrated_gaussian_numba(x, mu, sigma, dx, normalization)
InitPixel ==
    \E n \in 2..MaxPix :
      \E xx \in SortedArrays(n, Waves), m \in Centers, s2 \in Sigmas2,
         d \in Widths(n), nm \in LineFluxes :
        /\ spec_wobs = Empty /\ spec_R_fwhm = Empty /\ velocity_sigma = 0
        /\ dw = Empty
        /\ NoResample
        /\ gcall = "pixel" /\ line_um = Empty /\ line_flux = 0
        /\ Rw = Empty /\ ldw = Empty
        /\ x = xx /\ mu = m /\ sigma2 = s2 /\ dx = d /\ normalization = nm
        /\ xdx = Empty
        /\ samp = [k \in DOMAIN xx |-> <<"zero">>]
        /\ gi = 0
        /\ gpc = "xdx"
        /\ NoIgm

gfixed == <<rvars, ivars, gcall, line_um, line_flux>>

LineInterp ==
    /\ gpc = "interp"
    /\ Rw' = interp(line_um, spec_wobs, spec_R_fwhm)
    /\ gpc' = "width"
    /\ UNCHANGED <<gfixed, ldw, x, mu, sigma2, dx, normalization, xdx, samp, gi>>

LineWidth ==
    /\ gpc = "width"
    /\ ldw' = line_dw2(velocity_sigma, Rw, line_um)
    /\ gpc' = "call"
    /\ UNCHANGED <<gfixed, Rw, x, mu, sigma2, dx, normalization, xdx, samp, gi>>

LineCall ==
    /\ gpc = "call"
    /\ x' = spec_wobs
    /\ mu' = line_um
    /\ sigma2' = ldw
    /\ dx' = None
    /\ normalization' = line_flux
    /\ samp' = [k \in DOMAIN spec_wobs |-> <<"zero">>]
    /\ gpc' = "xdx"
    /\ UNCHANGED <<gfixed, Rw, ldw, xdx, gi>>

GradientWidths ==
    /\ gpc = "xdx"
    /\ dx = None
    /\ xdx' = Gradient(x)
    /\ gpc' = "first"
    /\ UNCHANGED <<gfixed, Rw, ldw, x, mu, sigma2, dx, normalization, samp, gi>>

GivenWidths ==
    /\ gpc = "xdx"
    /\ dx # None
    /\ xdx' = Broadcast(dx, x)
    /\ gpc' = "first"
    /\ UNCHANGED <<gfixed, Rw, ldw, x, mu, sigma2, dx, normalization, samp, gi>>

FirstSample ==
    /\ gpc = "first"
    /\ samp' = [samp EXCEPT ![0] = PixelIntegral(0)]
    /\ gi' = 1
    /\ gpc' = "loop"
    /\ UNCHANGED <<gfixed, Rw, ldw, x, mu, sigma2, dx, normalization, xdx>>

LoopSample ==
    /\ gpc = "loop"
    /\ gi < Len0(x)
    /\ samp' = [samp EXCEPT ![gi] = PixelIntegral(gi)]
    /\ gi' = gi + 1
    /\ UNCHANGED <<gfixed, Rw, ldw, x, mu, sigma2, dx, normalization, xdx, gpc>>

PixelReturn ==
    /\ gpc = "loop"
    /\ gi >= Len0(x)
    /\ gpc' = IF gcall = "line" THEN "resamp" ELSE "done"
    /\ UNCHANGED <<gfixed, Rw, ldw, x, mu, sigma2, dx, normalization, xdx, samp, gi>>

LineReturn ==
    /\ gpc = "resamp"
    /\ gpc' = "done"
    /\ UNCHANGED <<gfixed, Rw, ldw, x, mu, sigma2, dx, normalization, xdx, samp, gi>>

NextLine ==
    \/ LineInterp
    \/ LineWidth
    \/ LineCall
    \/ GradientWidths
    \/ GivenWidths
    \/ FirstSample
    \/ LoopSample
    \/ PixelReturn
    \/ LineReturn

SpecLine == (InitLine \/ InitPixel) /\ [][NextLine]_vars

IsKernelWidth(d2, lam, vs, R, c) ==
    RatSub(RatDiv(d2, RatSq(lam)), RatSq(RatDiv(RatInt(1), RatMul(Rat(235, 100), R))))
        = RatSq(Rat(vs, c))

LineWidthKnown == gcall = "line" /\ gpc \notin {"interp", "width"}

\* both functions compute lambda * sqrt((velocity_sigma/c)^2 + (1/(2.35 R))^2)
KernelWidthsWith(c) ==
    LineWidthKnown =>
        /\ IsKernelWidth(ldw, line_um, velocity_sigma, Rw, c)
        /\ \A p \in DOMAIN spec_wobs :
              /\ IsKernelWidth(dw[p], RatInt(spec_wobs[p]), velocity_sigma,
                               RatInt(spec_R_fwhm[p]), c)
              /\ (line_um = RatInt(spec_wobs[p]) /\ Rw = RatInt(spec_R_fwhm[p]))
                     => ldw = dw[p]

\* C7 (as claimed): resample_template and sample_gaussian_line compute the
\* kernel width by the same formula lambda * sqrt((velocity_sigma/c)^2
\* + (1/(2.35 R))^2), with c = 299800.
C7_KernelWidth299800 == KernelWidthsWith(299800)

\* C7 (amended): resample_template and sample_gaussian_line compute the
\* kernel width by the same formula lambda * sqrt((velocity_sigma/c)^2
\* + (1/(2.35 R))^2), with c = 300000.
C7_KernelWidth300000 == KernelWidthsWith(300000)

C7_Witness ==
    /\ LineWidthKnown /\ velocity_sigma # 0
    /\ \E p, q \in DOMAIN spec_wobs :
          /\ line_um = RatInt(spec_wobs[p]) /\ Rw = RatInt(spec_R_fwhm[p])
          /\ ldw = dw[p]
          /\ spec_R_fwhm[q] # spec_R_fwhm[p]

---------------------------------------------------------------------------
\* compute_igm

\* _LAF[1] and _DLA[1]: the rest wavelengths of the Lyman series, in
\* thousandths of an Angstrom
ALAM_mA ==
    <<1215670, 1025720, 972537, 949743, 937803, 930748, 926226, 923150,
      920963, 919352, 918129, 917181, 916429, 915824, 915329, 914919,
      914576, 914286, 914039, 913826, 913641, 913480, 913339, 913215,
      913104, 913006, 912918, 912839, 912768, 912703, 912645, 912592,
      912543, 912499, 912458, 912420, 912385, 912353, 912324>>

ALAM(j) == Rat(ALAM_mA[j + 1], 1000)
Series == 0..(Len(ALAM_mA) - 1)

z1LAF == Rat(12, 10)
z2LAF == Rat(47, 10)
z1DLA == RatInt(2)
lamL == Rat(9118, 10)

\* lam * (1 + zz)
Shifted(lam, zz) == RatMul(lam, RatAdd(RatInt(1), zz))

\* if wi > 1300.0 * (1 + zS): continue
Redward(wi, zS) == RatLt(Shifted(RatInt(1300), zS), wi)

\* the Lyman-alpha forest term of row j (lines 369-376); a term is named by
\* its family, the branch taken and the row
SeriesLAF(wi, zS, j) ==
    LET lsj == ALAM(j)
    IN  IF RatLt(wi, Shifted(lsj, zS))
        THEN IF RatLt(wi, Shifted(lsj, z1LAF))
             THEN <<<<"LS_LAF", 1, j>>>>
             ELSE IF RatLe(Shifted(lsj, z1LAF), wi) /\ RatLt(wi, Shifted(lsj, z2LAF))
             THEN <<<<"LS_LAF", 2, j>>>>
             ELSE <<<<"LS_LAF", 3, j>>>>
        ELSE <<>>

\* the damped Lyman-alpha term of row j (lines 379-383)
SeriesDLA(wi, zS, j) ==
    LET lsj == ALAM(j)
    IN  IF RatLt(wi, Shifted(lsj, zS))
        THEN IF RatLt(wi, Shifted(lsj, z1DLA))
             THEN <<<<"LS_DLA", 1, j>>>>
             ELSE <<<<"LS_DLA", 2, j>>>>
        ELSE <<>>

\* for j, lsj in enumerate(ALAM): the terms of rows j.., in the order added
RECURSIVE SeriesFrom(_, _, _)
SeriesFrom(wi, zS, j) ==
    IF j \notin Series THEN <<>>
    ELSE SeriesLAF(wi, zS, j) \o SeriesDLA(wi, zS, j) \o SeriesFrom(wi, zS, j + 1)

\* Lyman continuum, DLA (lines 388-413)
ContinuumDLA(wi, zS) ==
    IF RatLt(zS, z1DLA)
    THEN <<<<"LC_DLA", 1>>>>
    ELSE IF RatLe(Shifted(lamL, z1DLA), wi)
    THEN <<<<"LC_DLA", 2>>>>
    ELSE <<<<"LC_DLA", 3>>>>

\* Lyman continuum, LAF (lines 416-450)
ContinuumLAF(wi, zS) ==
    IF RatLt(zS, z1LAF)
    THEN <<<<"LC_LAF", 1>>>>
    ELSE IF RatLt(zS, z2LAF)
    THEN IF RatLe(Shifted(lamL, z1LAF), wi)
         THEN <<<<"LC_LAF", 2>>>>
         ELSE <<<<"LC_LAF", 3>>>>
    ELSE IF RatLt(Shifted(lamL, z2LAF), wi)
    THEN <<<<"LC_LAF", 4>>>>
    ELSE IF RatLe(Shifted(lamL, z1LAF), wi) /\ RatLt(wi, Shifted(lamL, z2LAF))
    THEN <<<<"LC_LAF", 5>>>>
    ELSE IF RatLt(wi, Shifted(lamL, z1LAF))
    THEN <<<<"LC_LAF", 6>>>>
    ELSE <<>>

\* lines 386-450
Continuum(wi, zS) ==
    IF RatLt(wi, Shifted(lamL, zS))
    THEN ContinuumDLA(wi, zS) \o ContinuumLAF(wi, zS)
    ELSE <<>>

\* the absorbed fraction instead of the transmitted one
Absorption(st, terms) ==
    IF terms = <<>> THEN <<"zero">> ELSE <<"1-exp", st, terms>>

\* np.exp(-scale_tau * tau) for one wavelength: tau is the sum of the terms,
\* 0.0 when there is none, and exp(-scale_tau * 0.0) is 1.0
Transmission(st, terms) ==
    IF terms = <<>> THEN <<"one">> ELSE <<"exp", st, terms>>

Redshifts == {RatInt(0), Rat(1, 2), Rat(12, 10), RatInt(2), Rat(47, 10), RatInt(6)}
IgmWaves == {RatInt(900), RatInt(1300), RatInt(1301), RatInt(2000),
             Rat(200596, 100), Rat(27354, 10), RatInt(3900), RatInt(3901),
             Rat(519726, 100), RatInt(6400), RatInt(9100), RatInt(9101)}
TauScales == {1, 2}

InitIgm ==
    \E n \in 1..MaxN :
      \E zz \in Redshifts, w \in Arrays(n, IgmWaves), st \in TauScales :
        /\ z = zz /\ wobs = w /\ scale_tau = st
        /\ tau = [k \in DOMAIN w |-> <<>>]
        /\ igmz = Empty
        /\ ii = 0
        /\ ipc = "loop"
        /\ spec_wobs = Empty /\ spec_R_fwhm = Empty /\ velocity_sigma = 0
        /\ dw = Empty
        /\ NoResample
        /\ NoGauss

ifixed == <<rvars, gvars, z, wobs, scale_tau>>

NextWave ==
    /\ ii' = ii + 1
    /\ ipc' = IF ii + 1 < Len0(wobs) THEN "loop" ELSE "exp"

RedSkip ==
    /\ ipc = "loop"
    /\ Redward(wobs[ii], z)
    /\ NextWave
    /\ UNCHANGED <<ifixed, tau, igmz>>

LymanSeries ==
    /\ ipc = "loop"
    /\ ~Redward(wobs[ii], z)
    /\ tau' = [tau EXCEPT ![ii] = @ \o SeriesFrom(wobs[ii], z, 0)]
    /\ ipc' = "continuum"
    /\ UNCHANGED <<ifixed, igmz, ii>>

LymanContinuum ==
    /\ ipc = "continuum"
    /\ tau' = [tau EXCEPT ![ii] = @ \o Continuum(wobs[ii], z)]
    /\ NextWave
    /\ UNCHANGED <<ifixed, igmz>>

IgmReturn ==
    /\ ipc = "exp"
    /\ igmz' = [k \in DOMAIN wobs |-> Transmission(scale_tau, tau[k])]
    /\ ipc' = "done"
    /\ UNCHANGED <<ifixed, tau, ii>>

NextIgm ==
    \/ RedSkip
    \/ LymanSeries
    \/ LymanContinuum
    \/ IgmReturn

SpecIgm == InitIgm /\ [][NextIgm]_vars

\* C5: for every wavelength with wobs[k] > 1300 (1 + z) no term of any family
\* is added to tau[k], and the returned transmission there is exactly 1.
C5_RedwardUnabsorbed ==
    \A k \in DOMAIN wobs :
        Redward(wobs[k], z) =>
            /\ tau[k] = <<>>
            /\ ipc = "done" => igmz[k] = <<"one">>

C5_Witness ==
    /\ ipc = "done"
    /\ \E k, m \in DOMAIN wobs :
          /\ Redward(wobs[k], z) /\ igmz[k] = <<"one">>
          /\ ~Redward(wobs[m], z) /\ igmz[m][1] = "exp"

-----------------------------------------------------------------------------
\* the terms of one family that the loop has added to tau[k]
TermsOf(k, family) ==
    Cardinality({t \in DOMAIN tau[k] : tau[k][t][1] = family})

BelowLymanLimit(k) == RatLt(wobs[k], Shifted(lamL, z))
AllWavesDone == ipc \in {"exp", "done"}

\* C11 (as claimed): once the loop is over, every wavelength below the
\* redshifted Lyman limit, wobs[k] < 911.8 (1 + z), has had exactly one
\* Lyman-continuum DLA term and exactly one Lyman-continuum LAF term added to
\* tau[k], the thresholds 911.8 (1 + 1.2), 911.8 (1 + 2.0) and 911.8 (1 + 4.7)
\* included.
C11_OneContinuumTermEach ==
    AllWavesDone =>
        \A k \in DOMAIN wobs :
            BelowLymanLimit(k) =>
                /\ TermsOf(k, "LC_DLA") = 1
                /\ TermsOf(k, "LC_LAF") = 1

\* what the branches of lines 386-450 do add: one DLA term always, and one
\* LAF term except for z >= 4.7 at wobs[k] = 911.8 (1 + 4.7), where none is
ContinuumGapOnlyAtThreshold ==
    AllWavesDone =>
        \A k \in DOMAIN wobs :
            BelowLymanLimit(k) =>
                /\ TermsOf(k, "LC_DLA") = 1
                /\ TermsOf(k, "LC_LAF") =
                       IF ~RatLt(z, z2LAF) /\ wobs[k] = Shifted(lamL, z2LAF)
                       THEN 0 ELSE 1

====
